---- MODULE Spec2Model ----
(***************************************************************************)
(* The Fiverr scrape -> hash -> deduplicate -> pin pipeline of src/demo.js *)
(* as a state machine.  A request is one run of the POST /scrape handler;  *)
(* Node runs a handler without interruption between two awaits, so every   *)
(* action is at most one such stretch: it starts when an awaited external  *)
(* call (puppeteer, the Pinata HTTP API) settles and ends no later than    *)
(* the next await.  Each storeDataOnIPFS call begins in a step of its own. *)
(***************************************************************************)
EXTENDS Integers, Sequences, FiniteSets, TLC

\* The most listing cards a scraped page shows.
MaxGigs == 3

\* The most fields of a record handed to generateHash on its own.
MaxFields == 2

MaxCards == 2

MaxProjects == 1

\* The concurrent POST /scrape requests.
Requests == {"r1", "r2"}

VARIABLES
    uploadedMetadata,  \* the Map of demo.js:37, hash -> CID
    pc,                \* where each request's handler is suspended
    profileUrl,        \* req.body.profileUrl of each request
    browser,           \* the local `browser` of each scrapeFiverrProfile call
    chromium,          \* the browser processes puppeteer has launched
    pageStep,          \* which awaited page operation the scrape is at
    scrapedData,       \* the value scrapeFiverrProfile returns / has returned
    idx,               \* how many gigs the for-loop has been through
    gigCIDs,           \* the handler's local array gigCIDs
    response,          \* what res.status(..).json(..) sent
    calls,             \* the storeDataOnIPFS calls each request has made
    ipfsCall,          \* the one call of src/ipfs.js storeDataOnIPFS
    hIn,               \* the two records generateHash is applied to
    hOut,              \* their hashes, in order
    dom,               \* the document page.evaluate runs in
    domData,           \* what the page.evaluate callback returned
    sbtContract,       \* the registry contract: userToDID and didRecords
    registerRes,       \* the last answer of POST /api/register
    profileReq,        \* the GET /api/profile/:wallet requests
    doneBefore         \* per request, the requests answered 200 before its first call

vars == <<uploadedMetadata, pc, profileUrl, browser, chromium, pageStep, scrapedData,
          idx, gigCIDs, response, calls, ipfsCall, hIn, hOut, dom, domData,
          sbtContract, registerRes, profileReq, doneBefore>>

\* What the functions and the registry endpoints, taken on their own, work on.
registryVars == <<sbtContract, registerRes, profileReq>>

aloneVars == <<hIn, hOut, dom, domData, registryVars>>

pipelineVars == <<uploadedMetadata, pc, profileUrl, browser, chromium, pageStep,
                  scrapedData, idx, gigCIDs, response, calls, ipfsCall, doneBefore>>

-----------------------------------------------------------------------------
(* JavaScript values.  An object keeps its properties in insertion order.  *)

Str(s) == [t |-> "str", s |-> s]

Arr(a) == [t |-> "arr", a |-> a]

Obj(o) == [t |-> "obj", o |-> o]

Prop(k, v) == [k |-> k, v |-> v]

Bool(b) == [t |-> "bool", b |-> b]

null == [t |-> "null"]

Truthy(v) == v.t # "null" /\ ~(v.t = "str" /\ v.s = "")

Has(obj, key) == \E i \in 1..Len(obj.o) : obj.o[i].k = key

Get(obj, key) == obj.o[CHOOSE i \in 1..Len(obj.o) : obj.o[i].k = key].v

RECURSIVE Join(_)
Join(ss) ==
    IF ss = <<>> THEN ""
    ELSE IF Len(ss) = 1 THEN ss[1]
    ELSE ss[1] \o "," \o Join(Tail(ss))

\* JSON.stringify: properties are written in the order the object holds them.
RECURSIVE JSONstringify(_)
JSONstringify(x) ==
    CASE x.t = "null" -> "null"
      [] x.t = "bool" -> IF x.b THEN "true" ELSE "false"
      [] x.t = "str" -> "\"" \o x.s \o "\""
      [] x.t = "arr" ->
            "[" \o Join([i \in 1..Len(x.a) |-> JSONstringify(x.a[i])]) \o "]"
      [] x.t = "obj" ->
            "{" \o Join([i \in 1..Len(x.o) |->
                          "\"" \o x.o[i].k \o "\":" \o JSONstringify(x.o[i].v)])
                \o "}"

\* SHA-256 in hex.  The digest is taken as collision free: it names its input.
sha256hex(s) == "sha256(" \o s \o ")"

generateHash(data) == sha256hex(JSONstringify(data))

\* The IpfsHash Pinata answers for pinataContent: the network is content
\* addressed, so it is a function of the content alone.
IpfsHash(data) == "Qm(" \o JSONstringify(data) \o ")"

GatewayUrl(cid) == "https://gateway.pinata.cloud/ipfs/" \o cid

EmptyMap == [h \in {} |-> ""]

MapSet(m, h, cid) == [k \in DOMAIN m \cup {h} |-> IF k = h THEN cid ELSE m[k]]

-----------------------------------------------------------------------------
(* Inputs: the request bodies and the pages the browser may render.        *)

MissingUrl == ""

MalformedUrl == "not-a-url"

ValidUrl == "https://www.fiverr.com/alice"

Urls == {MissingUrl, MalformedUrl, ValidUrl}

\* The { title, link } a gig card with a heading and an anchor extracts to.
GigCard(k) ==
    Obj(<<Prop("title", Str("Listing " \o ToString(k))),
          Prop("link", Str(ValidUrl \o "/" \o ToString(k)))>>)

\* The { title, link } of a gig card that has neither.
BareCard == Obj(<<Prop("title", Str("N/A")), Prop("link", Str("N/A"))>>)

\* What page.evaluate returns for a page showing the gig cards `gigs`.
DomData(gigs) ==
    Obj(<<Prop("publicName", Str("Alice")),
          Prop("username", Str("alice")),
          Prop("gigTitle", Str("N/A")),
          Prop("reviewsCount", Str("N/A")),
          Prop("skills", Arr(<<>>)),
          Prop("gigs", Arr(gigs)),
          Prop("projects", Arr(<<>>))>>)

\* The pages: the first n listings of the profile, or two bare cards.
Pages ==
    {DomData([k \in 1..n |-> GigCard(k)]) : n \in 0..MaxGigs}
        \cup {DomData(<<BareCard, BareCard>>)}

\* The awaited page operations of scrapeFiverrProfile, in order.
PageOps == <<"newPage", "setUserAgent", "goto", "settle", "screenshot", "evaluate">>

\* What the awaited operation may do: a timer cannot reject, and navigating
\* to something that is no URL always rejects.
MayResolve(r, op) == ~(op = "goto" /\ profileUrl[r] = MalformedUrl)

MayReject(r, op) == op # "settle"

\* The records generateHash is applied to on its own: flat objects.
FieldKeys == {"title", "link", "price"}

FieldValues == {"a", "b"}

FlatRecords ==
    UNION {{Obj([i \in 1..n |-> Prop(ks[i], Str(vs[i]))]) :
                ks \in {q \in [1..n -> FieldKeys] : \A i, j \in 1..n : q[i] = q[j] => i = j},
                vs \in [1..n -> FieldValues]} : n \in 0..MaxFields}

-----------------------------------------------------------------------------
(* The state after the server has started and the requests have arrived.   *)

NoResponse == [status |-> 0, body |-> null]

NoProcess == [launched |-> FALSE, open |-> FALSE, closedBy |-> "nobody"]

PipelineInit ==
    /\ uploadedMetadata = EmptyMap
    /\ pc = [r \in Requests |-> "new"]
    /\ profileUrl \in [Requests -> Urls]
    /\ browser = [r \in Requests |-> "undefined"]
    /\ chromium = [r \in Requests |-> NoProcess]
    /\ pageStep = [r \in Requests |-> 0]
    /\ scrapedData = [r \in Requests |-> null]
    /\ idx = [r \in Requests |-> 0]
    /\ gigCIDs = [r \in Requests |-> <<>>]
    /\ response = [r \in Requests |-> NoResponse]
    /\ calls = [r \in Requests |-> <<>>]
    /\ ipfsCall = [pc |-> "idle", result |-> null]
    /\ doneBefore = [r \in Requests |-> {}]

NoDocument == [t |-> "none"]

Wallets == {"0xA1", "0xB2"}

Dids == {"did:sbt:1", "did:sbt:2"}

Lookups == {"g1", "g2"}

\* A contract with no registration, no POST /api/register made, and the
\* lookups that are to come.
RegistryInit ==
    /\ sbtContract = [userToDID |-> [w \in Wallets |-> ""],
                      didRecords |-> [d \in Dids |-> null]]
    /\ registerRes = NoResponse
    /\ profileReq \in [Lookups -> [pc : {"new"}, wallet : Wallets,
                                    registryCalls : {<<>>}, response : {NoResponse}]]

RegistryIdle ==
    /\ sbtContract = [userToDID |-> [w \in Wallets |-> ""],
                      didRecords |-> [d \in Dids |-> null]]
    /\ registerRes = NoResponse
    /\ profileReq = [g \in Lookups |->
                        [pc |-> "new", wallet |-> "0xA1", registryCalls |-> <<>>,
                         response |-> NoResponse]]

Init ==
    /\ PipelineInit /\ hIn = <<>> /\ hOut = <<>> /\ dom = NoDocument /\ domData = null
    /\ RegistryIdle

-----------------------------------------------------------------------------
(* storeDataOnIPFS of demo.js, seen from the request that calls it.        *)

Gigs(r) == Get(scrapedData[r], "gigs").a

\* A loop that stops one listing short.
InGigLoop_skipLast(r) == idx[r] + 1 < Len(Gigs(r))

\* The for loop of lines 582-587 has a listing left.
InGigLoop(r) == idx[r] < Len(Gigs(r))

\* One element of gigCIDs: { gigTitle, cid, ipfsUrl }.
GigEntry(gig, cid) ==
    Obj(<<Prop("gigTitle", Get(gig, "title")),
          Prop("cid", cid),
          Prop("ipfsUrl", Str(GatewayUrl(cid.s)))>>)

\* A profileData that keeps the scraped gigs as they are.
ProfileData_embedded(r) ==
    Obj(<<Prop("publicName", Get(scrapedData[r], "publicName")),
          Prop("username", Get(scrapedData[r], "username")),
          Prop("gigTitle", Get(scrapedData[r], "gigTitle")),
          Prop("reviewsCount", Get(scrapedData[r], "reviewsCount")),
          Prop("skills", Get(scrapedData[r], "skills")),
          Prop("projects", Get(scrapedData[r], "projects")),
          Prop("gigs", Get(scrapedData[r], "gigs"))>>)

\* The profileData object of the handler: the gigs are the collected CIDs.
ProfileData(r) ==
    Obj(<<Prop("publicName", Get(scrapedData[r], "publicName")),
          Prop("username", Get(scrapedData[r], "username")),
          Prop("gigTitle", Get(scrapedData[r], "gigTitle")),
          Prop("reviewsCount", Get(scrapedData[r], "reviewsCount")),
          Prop("skills", Get(scrapedData[r], "skills")),
          Prop("projects", Get(scrapedData[r], "projects")),
          Prop("gigs", Arr(gigCIDs[r]))>>)

\* The arguments of the storeDataOnIPFS call the handler is at.
CurrentData(r) == IF InGigLoop(r) THEN Gigs(r)[idx[r] + 1] ELSE ProfileData(r)

CurrentName(r) ==
    IF InGigLoop(r) THEN "Gig-" \o Get(Gigs(r)[idx[r] + 1], "title").s ELSE "FiverrProfile"

\* The calls made so far, and what is known of the calls on one hash.
CallIds == {<<r, i>> : r \in Requests, i \in 1..MaxGigs + 2}

MadeCalls == {c \in CallIds : c[2] <= Len(calls[c[1]])}

Call(c) == calls[c[1]][c[2]]

Returned(h) == {c \in MadeCalls : Call(c).hash = h /\ Call(c).returned}

InFlight(h) == {c \in MadeCalls : Call(c).hash = h /\ ~Call(c).returned}

\* A lookup made for the gigs only, never for the profile.
NewCall_gigsOnly(r, h, name) ==
    LET hit == h \in DOMAIN uploadedMetadata /\ name # "FiverrProfile" IN
    [hash |-> h, name |-> name, hit |-> hit, posts |-> IF hit THEN 0 ELSE 1,
     returned |-> hit, result |-> IF hit THEN Str(uploadedMetadata[h]) ELSE null]

\* A lookup that also remembers the hashes whose post failed.
NewCall_negativeCache(r, h, name) ==
    LET hit == h \in DOMAIN uploadedMetadata
        failed == \E c \in Returned(h) : Call(c).result = null
    IN  [hash |-> h, name |-> name, hit |-> hit \/ failed,
         posts |-> IF hit \/ failed THEN 0 ELSE 1, returned |-> hit \/ failed,
         result |-> IF hit THEN Str(uploadedMetadata[h]) ELSE null]

\* A lookup that never finds the hash.
NewCall_noLookup(r, h, name) ==
    [hash |-> h, name |-> name, hit |-> FALSE, posts |-> 1, returned |-> FALSE,
     result |-> null]

\* The record of a call as it begins: a hit returns at once, a miss posts.
NewCall(r, h, name) ==
    LET hit == h \in DOMAIN uploadedMetadata IN
    [hash |-> h, name |-> name, hit |-> hit, posts |-> IF hit THEN 0 ELSE 1,
     returned |-> hit, result |-> IF hit THEN Str(uploadedMetadata[h]) ELSE null]

Finish(call, result) == [call EXCEPT !.returned = TRUE, !.result = result]

\* A push at the front of the array.
PushGig_unshift(list, gig, result) ==
    IF Truthy(result) THEN <<GigEntry(gig, result)>> \o list ELSE list

\* gigCIDs after the call for `gig` has returned `result` (lines 584-586).
PushGig(list, gig, result) ==
    IF Truthy(result) THEN Append(list, GigEntry(gig, result)) ELSE list

\* A handler that does not test profileCID.
RootResponse_unchecked(result, list) ==
    [status |-> 200,
     body |-> Obj(<<Prop("success", Bool(TRUE)), Prop("profileCID", result),
                    Prop("gigs", Arr(list))>>)]

\* The response once the root call has returned `result` (lines 601-610).
RootResponse(result, list) ==
    IF ~Truthy(result)
    THEN [status |-> 500,
          body |-> Obj(<<Prop("error", Str("Failed to upload profile data to IPFS"))>>)]
    ELSE [status |-> 200,
          body |-> Obj(<<Prop("success", Bool(TRUE)),
                         Prop("profileCID", result),
                         Prop("profileIpfsUrl", Str(GatewayUrl(result.s))),
                         Prop("gigs", Arr(list))>>)]

\* The handler resumes with the result of the call it awaited.
AfterStore(r, result) ==
    IF InGigLoop(r)
    THEN /\ gigCIDs' = [gigCIDs EXCEPT ![r] = PushGig(@, Gigs(r)[idx[r] + 1], result)]
         /\ idx' = [idx EXCEPT ![r] = @ + 1]
         /\ pc' = [pc EXCEPT ![r] = "store"]
         /\ UNCHANGED response
    ELSE /\ response' = [response EXCEPT ![r] = RootResponse(result, gigCIDs[r])]
         /\ pc' = [pc EXCEPT ![r] = "done"]
         /\ UNCHANGED <<gigCIDs, idx>>

\* Lines 50-72: hash, look the hash up, return the cached CID or post.
StoreBegin(r) ==
    /\ pc[r] = "store"
    /\ LET h == generateHash(CurrentData(r))
           call == NewCall(r, h, CurrentName(r))
       IN /\ calls' = [calls EXCEPT ![r] = Append(@, call)]
          /\ IF call.hit
             THEN AfterStore(r, call.result)
             ELSE /\ pc' = [pc EXCEPT ![r] = "post"]
                  /\ UNCHANGED <<gigCIDs, idx, response>>
    /\ UNCHANGED <<uploadedMetadata, profileUrl, browser, chromium, pageStep,
                   scrapedData, ipfsCall, aloneVars, doneBefore>>

\* A map that holds the gateway URL of the CID.
Committed_url(m, h, cid, ok) == IF ok THEN MapSet(m, h, GatewayUrl(cid)) ELSE m

\* A map that holds the newest entry only.
Committed_newestOnly(m, h, cid, ok) == IF ok THEN MapSet(EmptyMap, h, cid) ELSE m

\* A call that stores whatever came back, also after an error.
Committed_alsoOnError(m, h, cid, ok) == MapSet(m, h, cid)

\* The map after the post has settled (lines 74-75, 78-80).
Committed(m, h, cid, ok) == IF ok THEN MapSet(m, h, cid) ELSE m

\* A catch block that posts once more before it gives up.
OnPinataError_retry(call) == [call EXCEPT !.returned = TRUE, !.result = null, !.posts = @ + 1]

\* What the catch block does with the call (lines 78-81): it gives up.
OnPinataError(call) == Finish(call, null)

\* Lines 74-81: the post settles; the call stores and returns the CID, or null.
PostSettle(r) ==
    /\ pc[r] = "post"
    /\ \E ok \in BOOLEAN :
         LET n == Len(calls[r])
             call == calls[r][n]
             cid == IpfsHash(CurrentData(r))
             done == IF ok THEN Finish(call, Str(cid)) ELSE OnPinataError(call)
         IN /\ uploadedMetadata' = Committed(uploadedMetadata, call.hash, cid, ok)
            /\ calls' = [calls EXCEPT ![r][n] = done]
            /\ AfterStore(r, done.result)
    /\ UNCHANGED <<profileUrl, browser, chromium, pageStep, scrapedData, ipfsCall,
                   aloneVars, doneBefore>>

-----------------------------------------------------------------------------
(* scrapeFiverrProfile and the POST /scrape handlers.                      *)

ErrorResponse(status, message) ==
    [status |-> status, body |-> Obj(<<Prop("error", Str(message))>>)]

\* The handler that is registered (lines 389-391): its body is empty, so it
\* returns without answering.
ScrapeRoute(r) ==
    /\ pc[r] = "new"
    /\ pc' = [pc EXCEPT ![r] = "unanswered"]
    /\ UNCHANGED <<uploadedMetadata, profileUrl, browser, chromium, pageStep,
                   scrapedData, idx, gigCIDs, response, calls, ipfsCall, aloneVars, doneBefore>>

\* The test the handler makes of req.body.profileUrl (line 571).
UrlRejected(url) == ~Truthy(Str(url))

\* The original handler (lines 568-575), up to its first await.
ScrapeHandler(r) ==
    /\ pc[r] = "new"
    /\ IF UrlRejected(profileUrl[r])
       THEN /\ response' = [response EXCEPT ![r] = ErrorResponse(400, "Profile URL is required")]
            /\ pc' = [pc EXCEPT ![r] = "done"]
       ELSE /\ pc' = [pc EXCEPT ![r] = "launch"]
            /\ UNCHANGED response
    /\ UNCHANGED <<uploadedMetadata, profileUrl, browser, chromium, pageStep,
                   scrapedData, idx, gigCIDs, calls, ipfsCall, aloneVars, doneBefore>>

\* The requests that have been answered 200.
Answered200 == {q \in Requests : pc[q] = "done" /\ response[q].status = 200}

\* A handler that does not test scrapedData.
AfterScrape_unchecked(r, data) ==
    /\ gigCIDs' = [gigCIDs EXCEPT ![r] = <<>>]
    /\ idx' = [idx EXCEPT ![r] = 0]
    /\ pc' = [pc EXCEPT ![r] = "store"]
    /\ doneBefore' = [doneBefore EXCEPT ![r] = Answered200]
    /\ UNCHANGED response

\* The handler resumes with what scrapeFiverrProfile returned (lines 576-583).
AfterScrape(r, data) ==
    IF data = null
    THEN /\ response' = [response EXCEPT ![r] = ErrorResponse(500, "Failed to scrape Fiverr profile")]
         /\ pc' = [pc EXCEPT ![r] = "done"]
         /\ UNCHANGED <<gigCIDs, idx, doneBefore>>
    ELSE /\ gigCIDs' = [gigCIDs EXCEPT ![r] = <<>>]
         /\ idx' = [idx EXCEPT ![r] = 0]
         /\ pc' = [pc EXCEPT ![r] = "store"]
         /\ doneBefore' = [doneBefore EXCEPT ![r] = Answered200]
         /\ UNCHANGED response

\* puppeteer.launch settles (lines 89-94).  When it rejects, `browser` stays
\* undefined, the finally block closes nothing and the scrape returns null.
LaunchBrowser(r) ==
    /\ pc[r] = "launch"
    /\ \E ok \in BOOLEAN :
         IF ok
         THEN /\ browser' = [browser EXCEPT ![r] = r]
              /\ chromium' = [chromium EXCEPT ![r] =
                                [launched |-> TRUE, open |-> TRUE, closedBy |-> "nobody"]]
              /\ pageStep' = [pageStep EXCEPT ![r] = 1]
              /\ pc' = [pc EXCEPT ![r] = "page"]
              /\ UNCHANGED <<scrapedData, idx, gigCIDs, response, doneBefore>>
         ELSE /\ AfterScrape(r, null)
              /\ UNCHANGED <<browser, chromium, pageStep, scrapedData>>
    /\ UNCHANGED <<uploadedMetadata, profileUrl, calls, ipfsCall, aloneVars>>

\* One awaited page operation settles (lines 96-161).  The last one returns
\* the extracted data; a rejection is caught (lines 165-167) and the scrape
\* is to return null.  Either way the finally block runs next.
PageStep(r) ==
    /\ pc[r] = "page"
    /\ LET op == PageOps[pageStep[r]] IN
       \E ok \in BOOLEAN :
         IF ok
         THEN /\ MayResolve(r, op)
              /\ IF pageStep[r] < Len(PageOps)
                 THEN /\ pageStep' = [pageStep EXCEPT ![r] = @ + 1]
                      /\ UNCHANGED <<pc, scrapedData>>
                 ELSE /\ \E page \in Pages : scrapedData' = [scrapedData EXCEPT ![r] = page]
                      /\ pc' = [pc EXCEPT ![r] = "close"]
                      /\ UNCHANGED pageStep
         ELSE /\ MayReject(r, op)
              /\ scrapedData' = [scrapedData EXCEPT ![r] = null]
              /\ pc' = [pc EXCEPT ![r] = "close"]
              /\ UNCHANGED pageStep
    /\ UNCHANGED <<uploadedMetadata, profileUrl, browser, chromium, idx, gigCIDs,
                   response, calls, ipfsCall, aloneVars, doneBefore>>

\* A close on the way out of the try block only, with no finally.
Finally_successOnly(r) ==
    IF browser[r] # "undefined" /\ scrapedData[r] # null
    THEN [chromium EXCEPT ![browser[r]] = [@ EXCEPT !.open = FALSE, !.closedBy = r]]
    ELSE chromium

\* The browser processes after the finally block of request r (lines 168-173).
Finally(r) ==
    IF browser[r] # "undefined"
    THEN [chromium EXCEPT ![browser[r]] = [@ EXCEPT !.open = FALSE, !.closedBy = r]]
    ELSE chromium

\* browser.close() settles, scrapeFiverrProfile returns and the handler goes on.
CloseBrowser(r) ==
    /\ pc[r] = "close"
    /\ chromium' = Finally(r)
    /\ AfterScrape(r, scrapedData[r])
    /\ UNCHANGED <<uploadedMetadata, profileUrl, browser, pageStep, scrapedData,
                   calls, ipfsCall, aloneVars>>

-----------------------------------------------------------------------------
(* storeDataOnIPFS of ipfs.js: no map, one ipfs.add, null on any error.    *)

IpfsData == GigCard(1)

IpfsStoreBegin ==
    /\ ipfsCall.pc = "idle"
    /\ ipfsCall' = [ipfsCall EXCEPT !.pc = "add"]
    /\ UNCHANGED <<uploadedMetadata, pc, profileUrl, browser, chromium, pageStep,
                   scrapedData, idx, gigCIDs, response, calls, aloneVars, doneBefore>>

IpfsAddSettle ==
    /\ ipfsCall.pc = "add"
    /\ \E ok \in BOOLEAN :
         ipfsCall' = [pc |-> "returned",
                      result |-> IF ok THEN Str(IpfsHash(Str(JSONstringify(IpfsData))))
                                 ELSE null]
    /\ UNCHANGED <<uploadedMetadata, pc, profileUrl, browser, chromium, pageStep,
                   scrapedData, idx, gigCIDs, response, calls, aloneVars, doneBefore>>

-----------------------------------------------------------------------------

\* The steps of one request.
RequestStep(r) ==
    \/ ScrapeRoute(r) \/ ScrapeHandler(r)
    \/ LaunchBrowser(r) \/ PageStep(r) \/ CloseBrowser(r)
    \/ StoreBegin(r) \/ PostSettle(r)

Next ==
    \/ \E r \in Requests :
         \/ ScrapeRoute(r)
         \/ ScrapeHandler(r)
         \/ LaunchBrowser(r)
         \/ PageStep(r)
         \/ CloseBrowser(r)
         \/ StoreBegin(r)
         \/ PostSettle(r)
    \/ IpfsStoreBegin
    \/ IpfsAddSettle

Spec == Init /\ [][Next]_vars

-----------------------------------------------------------------------------
(* generateHash on its own, applied to two records.                        *)

HashInit ==
    /\ PipelineInit
    /\ profileUrl = [r \in Requests |-> ValidUrl]
    /\ hIn \in FlatRecords \X FlatRecords
    /\ hOut = <<>>
    /\ dom = NoDocument
    /\ domData = null
    /\ RegistryIdle

HashNext ==
    /\ Len(hOut) < Len(hIn)
    /\ hOut' = Append(hOut, generateHash(hIn[Len(hOut) + 1]))
    /\ UNCHANGED <<hIn, dom, domData, registryVars, pipelineVars>>

HashSpec == HashInit /\ [][HashNext]_vars

-----------------------------------------------------------------------------
(* The page.evaluate callback on its own, applied to one document.         *)

\* An element the document holds, and the answer of querySelector when it
\* holds none.  innerText is a sequence of words and blanks.
Element(text, url) == [present |-> TRUE, innerText |-> text, url |-> url]

NoElement == [present |-> FALSE, innerText |-> <<>>, url |-> ""]

Blank == " "

RECURSIVE trimStart(_)
trimStart(text) ==
    IF text # <<>> /\ Head(text) = Blank THEN trimStart(Tail(text)) ELSE text

RECURSIVE trimEnd(_)
trimEnd(text) ==
    IF text # <<>> /\ text[Len(text)] = Blank
    THEN trimEnd(SubSeq(text, 1, Len(text) - 1))
    ELSE text

\* String.prototype.trim
trim(text) == trimEnd(trimStart(text))

\* text.split(word)[0]: what stands before the first occurrence of word.
RECURSIVE splitFirst(_, _)
splitFirst(text, word) ==
    IF text = <<>> \/ Head(text) = word THEN <<>>
    ELSE <<Head(text)>> \o splitFirst(Tail(text), word)

RECURSIVE Chars(_)
Chars(text) == IF text = <<>> THEN "" ELSE Head(text) \o Chars(Tail(text))

getText_blank(el) == IF el.present THEN Str(Chars(trim(el.innerText))) ELSE Str("")

getText(el) == IF el.present THEN Str(Chars(trim(el.innerText))) ELSE Str("N/A")

reviewsCount(el) ==
    IF el.present
    THEN Str(Chars(trim(splitFirst(el.innerText, "Reviews"))))
    ELSE Str("N/A")

skills(skillsList) ==
    IF Len(skillsList) > 0
    THEN Arr([i \in 1..Len(skillsList) |-> Str(Chars(trim(skillsList[i].innerText)))])
    ELSE Arr(<<>>)

\* One gig card or project item: its text element and its anchor or image.
urlOf(el) == IF el.present THEN Str(el.url) ELSE Str("N/A")

gigs(servicesSection) ==
    IF servicesSection.present
    THEN IF servicesSection.gigContainer.present
         THEN LET gigElements == servicesSection.gigContainer.gigElements
              IN  Arr([i \in 1..Len(gigElements) |->
                        Obj(<<Prop("title", getText(gigElements[i].titleEl)),
                              Prop("link", urlOf(gigElements[i].urlEl))>>)])
         ELSE Arr(<<>>)
    ELSE Arr(<<>>)

projects(projectElements) ==
    Arr([i \in 1..Len(projectElements) |->
          Obj(<<Prop("title", getText(projectElements[i].titleEl)),
                Prop("image", urlOf(projectElements[i].urlEl))>>)])

evaluate(document) ==
    Obj(<<Prop("publicName", getText(document.publicName)),
          Prop("username", getText(document.username)),
          Prop("gigTitle", getText(document.gigTitle)),
          Prop("reviewsCount", reviewsCount(document.reviewsElement)),
          Prop("skills", skills(document.skillsList)),
          Prop("gigs", gigs(document.servicesSection)),
          Prop("projects", projects(document.projectElements))>>)

\* The documents: every element is there or not.
Maybe(el) == {el, NoElement}

Items(n) ==
    UNION {[1..k -> [titleEl : Maybe(Element(<<Blank, "Logo", Blank, "design">>, "")),
                     urlEl : Maybe(Element(<<>>, ValidUrl \o "/item"))]] : k \in 0..n}

ServicesSections ==
    {[present |-> FALSE, gigContainer |-> [present |-> FALSE, gigElements |-> <<>>]],
     [present |-> TRUE, gigContainer |-> [present |-> FALSE, gigElements |-> <<>>]]}
        \cup {[present |-> TRUE, gigContainer |-> [present |-> TRUE, gigElements |-> g]] :
                g \in Items(MaxCards)}

Documents ==
    [publicName : Maybe(Element(<<Blank, "Alice", Blank>>, "")),
     username : Maybe(Element(<<"alice">>, "")),
     gigTitle : Maybe(Element(<<"Designer", Blank>>, "")),
     reviewsElement : Maybe(Element(<<"12", Blank, "Reviews">>, "")),
     skillsList : {[i \in 1..k |-> Element(<<"Figma", Blank>>, "")] : k \in 0..MaxFields},
     servicesSection : ServicesSections,
     projectElements : Items(MaxProjects)]

ExtractInit ==
    /\ PipelineInit
    /\ profileUrl = [r \in Requests |-> ValidUrl]
    /\ hIn = <<>>
    /\ hOut = <<>>
    /\ dom \in Documents
    /\ domData = null
    /\ RegistryIdle

Evaluate ==
    /\ domData = null
    /\ domData' = evaluate(dom)
    /\ UNCHANGED <<hIn, hOut, dom, registryVars, pipelineVars>>

ExtractSpec == ExtractInit /\ [][Evaluate]_vars

-----------------------------------------------------------------------------
(* The registry endpoints: POST /api/register and GET /api/profile/:wallet *)

\* POST /api/register (lines 360-370): registerDID and tx.wait() resolve and
\* the contract holds the DID and its record, or one of them rejects.
Register ==
    /\ \E w \in Wallets, d \in Dids, ok \in BOOLEAN :
         IF ok
         THEN /\ sbtContract' =
                    [userToDID |-> [sbtContract.userToDID EXCEPT ![w] = d],
                     didRecords |-> [sbtContract.didRecords EXCEPT ![d] =
                                        Obj(<<Prop("did", Str(d)), Prop("wallet", Str(w))>>)]]
              /\ registerRes' =
                    [status |-> 200,
                     body |-> Obj(<<Prop("success", Bool(TRUE)),
                                    Prop("txHash", Str("tx(" \o w \o "," \o d \o ")"))>>)]
         ELSE /\ registerRes' =
                    [status |-> 500,
                     body |-> Obj(<<Prop("success", Bool(FALSE)),
                                    Prop("error", Str("transaction failed"))>>)]
              /\ UNCHANGED sbtContract
    /\ UNCHANGED <<profileReq, hIn, hOut, dom, domData, pipelineVars>>

\* Line 376 as it is written: `awaitsbtContract` is one identifier and no
\* such binding exists, so evaluating it throws a ReferenceError before any
\* call reaches the contract.
userToDIDLine(wallet) ==
    [threw |-> TRUE, error |-> "awaitsbtContract is not defined", did |-> ""]

\* GET /api/profile/:wallet (lines 373-386).
ProfileHandler(g) ==
    /\ profileReq[g].pc = "new"
    /\ LET req == profileReq[g]
           line376 == userToDIDLine(req.wallet)
           Answer(calls376, res) ==
               profileReq' = [profileReq EXCEPT ![g] =
                                [pc |-> "done", wallet |-> req.wallet,
                                 registryCalls |-> calls376, response |-> res]]
       IN IF line376.threw
          THEN Answer(<<>>, [status |-> 500,
                             body |-> Obj(<<Prop("success", Bool(FALSE)),
                                            Prop("error", Str(line376.error))>>)])
          ELSE IF ~Truthy(Str(line376.did))
          THEN Answer(<<"userToDID">>,
                      [status |-> 404,
                       body |-> Obj(<<Prop("success", Bool(FALSE)),
                                      Prop("error", Str("Profile not found"))>>)])
          ELSE \E ok \in BOOLEAN :
                 IF ok
                 THEN Answer(<<"userToDID", "didRecords">>,
                             [status |-> 200,
                              body |-> Obj(<<Prop("success", Bool(TRUE)),
                                             Prop("profile",
                                                  sbtContract.didRecords[line376.did])>>)])
                 ELSE Answer(<<"userToDID", "didRecords failed">>,
                             [status |-> 500,
                              body |-> Obj(<<Prop("success", Bool(FALSE)),
                                             Prop("error", Str("call failed"))>>)])
    /\ UNCHANGED <<sbtContract, registerRes, hIn, hOut, dom, domData, pipelineVars>>

RegistrySpecInit ==
    /\ PipelineInit
    /\ profileUrl = [r \in Requests |-> ValidUrl]
    /\ hIn = <<>>
    /\ hOut = <<>>
    /\ dom = NoDocument
    /\ domData = null
    /\ RegistryInit

RegistryNext == Register \/ \E g \in Lookups : ProfileHandler(g)

RegistrySpec == RegistrySpecInit /\ [][RegistryNext]_vars

-----------------------------------------------------------------------------
(* What the call records say.                                              *)

\* The calls on hash h whose post the network accepted.
Pinned(h) ==
    {c \in MadeCalls : Call(c).hash = h /\ Call(c).posts > 0
                         /\ Call(c).returned /\ Truthy(Call(c).result)}

Hashes == {Call(c).hash : c \in MadeCalls}

RECURSIVE SumPosts(_)
SumPosts(cs) == IF cs = <<>> THEN 0 ELSE Head(cs).posts + SumPosts(Tail(cs))

\* The posts made on hash h by the calls that `cl` records.
PostsOn(cl, h) ==
    LET RECURSIVE Total(_)
        Total(R) ==
            IF R = {} THEN 0
            ELSE LET r == CHOOSE q \in R : TRUE
                 IN SumPosts(SelectSeq(cl[r], LAMBDA c : c.hash = h)) + Total(R \ {r})
    IN Total(Requests)

\* The request whose handler took the step, when the step began a call.
Began(r) == Len(calls'[r]) = Len(calls[r]) + 1

NewestCall(r) == calls'[r][Len(calls'[r])]

\* The post of request r settled in this step.
Settled(r) == pc[r] = "post" /\ pc'[r] # "post"

Scraped(r) == scrapedData[r] # null /\ pc[r] \in {"store", "post", "done"}

RootCallOf(r) == calls[r][Len(Gigs(r)) + 1]

RootReturned(r) ==
    /\ Scraped(r)
    /\ Len(calls[r]) = Len(Gigs(r)) + 1
    /\ RootCallOf(r).returned

\* The entries of the listings whose call returned a CID, in page order.
PublishedGigs(r) ==
    LET n == Len(Gigs(r))
        ok == SelectSeq([i \in 1..n |-> i], LAMBDA i : Truthy(calls[r][i].result))
    IN [k \in 1..Len(ok) |-> GigEntry(Gigs(r)[ok[k]], calls[r][ok[k]].result)]

\* Request q got its scraped data after request r had been answered 200 with
\* every listing in gigCIDs, and the two scraped the same data.
LaterSame(q, r) ==
    /\ q # r
    /\ r \in doneBefore[q]
    /\ scrapedData[q] = scrapedData[r]
    /\ Len(gigCIDs[r]) = Len(Gigs(r))

-----------------------------------------------------------------------------
(* C1.  At most one post per hash is accepted by the network, and no call  *)
(* posts while another call on the same hash is still awaiting its post:   *)
(* two posts of one hash are never in flight together.                     *)
C1_SingleFlight ==
    \A h \in Hashes :
        /\ Cardinality(Pinned(h)) <= 1
        /\ Cardinality(InFlight(h)) <= 1

(* C2, as claimed.  A call that begins after a call on the same hash has   *)
(* returned posts nothing and returns what that call returned.             *)
C2_SecondCallNeverPosts ==
    [][\A r \in Requests :
          (Began(r) /\ Returned(NewestCall(r).hash) # {}) =>
              /\ NewestCall(r).posts = 0
              /\ NewestCall(r).returned
              /\ \E c \in Returned(NewestCall(r).hash) :
                     NewestCall(r).result = Call(c).result]_vars

(* C2, amended.  A call that begins after a call on the same hash has      *)
(* returned a CID posts nothing and returns that CID; when that one call   *)
(* is all that went before, the two calls made one post between them.      *)
C2_SecondCallReusesCid ==
    [][\A r \in Requests :
          LET h == NewestCall(r).hash
              before == {c \in Returned(h) : Truthy(Call(c).result)}
          IN (Began(r) /\ before # {}) =>
                 /\ NewestCall(r).posts = 0
                 /\ NewestCall(r).returned
                 /\ \A c \in before : NewestCall(r).result = Call(c).result
                 /\ (\E c \in before :
                        Returned(h) \cup InFlight(h) = {c} /\ Call(c).posts = 1) =>
                        PostsOn(calls', h) = 1]_vars

C2_Witness ==
    \E r \in Requests : \E i, j \in 1..Len(calls[r]) :
        /\ i < j
        /\ calls[r][i].hash = calls[r][j].hash
        /\ calls[r][i].posts = 1 /\ Truthy(calls[r][i].result)
        /\ calls[r][j].hit /\ calls[r][j].posts = 0
        /\ calls[r][j].result = calls[r][i].result

(* C3.  Two records with the same field/value pairs have the same hash,    *)
(* whatever the order their fields were inserted in.                       *)
FieldSet(rec) == {<<rec.o[i].k, rec.o[i].v.s>> : i \in 1..Len(rec.o)}

C3_OrderInsensitive ==
    (Len(hOut) = 2 /\ FieldSet(hIn[1]) = FieldSet(hIn[2])) => hOut[1] = hOut[2]

(* C4.  Every storeDataOnIPFS call that has returned returned a CID or     *)
(* null, every call that has begun is awaiting its post or has returned,   *)
(* and a step in which a post fails returns null and leaves the map alone. *)
IsResult(v) == v = null \/ (v.t = "str" /\ v.s # "")

C4_ResultNeverThrow ==
    [][/\ \A r \in Requests : \A i \in 1..Len(calls'[r]) :
            /\ calls'[r][i].returned => IsResult(calls'[r][i].result)
            /\ ~calls'[r][i].returned => (i = Len(calls'[r]) /\ pc'[r] = "post")
       /\ ipfsCall'.pc = "returned" => IsResult(ipfsCall'.result)
       /\ \A r \in Requests :
            (Settled(r) /\ NewestCall(r).result = null) =>
                /\ NewestCall(r).returned
                /\ uploadedMetadata' = uploadedMetadata]_vars

C4_Witness ==
    \E r \in Requests : \E i \in 1..Len(calls[r]) :
        /\ calls[r][i].posts = 1 /\ calls[r][i].returned /\ calls[r][i].result = null
        /\ calls[r][i].hash \notin DOMAIN uploadedMetadata
        /\ uploadedMetadata # EmptyMap

(* C5.  A request whose root call returned a CID answers 200 with that CID *)
(* as profileCID and with exactly the listings whose call returned a CID,  *)
(* in page order.                                                          *)
C5_PartialFailure ==
    \A r \in Requests :
        (RootReturned(r) /\ Truthy(RootCallOf(r).result)) =>
            /\ response[r].status = 200
            /\ Get(response[r].body, "profileCID") = RootCallOf(r).result
            /\ Truthy(Get(response[r].body, "profileCID"))
            /\ Get(response[r].body, "gigs").a = PublishedGigs(r)

C5_Witness ==
    \E r \in Requests :
        /\ response[r].status = 200
        /\ Len(Gigs(r)) = 3
        /\ ~Truthy(calls[r][2].result)
        /\ Len(Get(response[r].body, "gigs").a) = 2

(* C6.  A request whose root call returned null answers 500 and its body   *)
(* has no profileCID, whatever the listing calls returned.                 *)
C6_RootFailure ==
    \A r \in Requests :
        (RootReturned(r) /\ ~Truthy(RootCallOf(r).result)) =>
            /\ response[r].status = 500
            /\ ~Has(response[r].body, "profileCID")
            /\ Has(response[r].body, "error")

C6_Witness ==
    \E r \in Requests :
        /\ RootReturned(r) /\ ~Truthy(RootCallOf(r).result)
        /\ response[r].status = 500
        /\ gigCIDs[r] # <<>>

(* C7.  A request whose scrape returned null makes no storeDataOnIPFS call *)
(* (so no post and no map entry is its own) and answers 500.               *)
ScrapeFailed(r) ==
    /\ ~UrlRejected(profileUrl[r])
    /\ scrapedData[r] = null
    /\ pc[r] \notin {"new", "unanswered", "launch", "page"}

C7_ScrapeFailure ==
    \A r \in Requests :
        ScrapeFailed(r) =>
            /\ calls[r] = <<>>
            /\ pc[r] \in {"close", "done"}
            /\ pc[r] = "done" =>
                  /\ response[r].status = 500
                  /\ Has(response[r].body, "error")

C7_Witness ==
    \E r \in Requests :
        /\ ScrapeFailed(r) /\ pc[r] = "done" /\ response[r].status = 500
        /\ chromium[r].launched
        /\ \E q \in Requests : calls[q] # <<>> /\ uploadedMetadata # EmptyMap

(* C8.  A request whose profileUrl is missing or malformed launches no     *)
(* browser, makes no storeDataOnIPFS call and is answered with 400.        *)
C8_BadUrlRejected ==
    \A r \in Requests :
        profileUrl[r] \in {MissingUrl, MalformedUrl} =>
            /\ ~chromium[r].launched
            /\ calls[r] = <<>>
            /\ pc[r] = "done" => response[r].status = 400

(* C9.  Once scrapeFiverrProfile has returned, the browser it launched is  *)
(* closed, on every path; a browser is open only while its own scrape is   *)
(* running, and it is closed by the request that launched it.              *)
C9_BrowserClosed ==
    \A r \in Requests :
        /\ chromium[r].open => (chromium[r].launched /\ pc[r] \in {"page", "close"}
                                  /\ browser[r] = r)
        /\ (chromium[r].launched /\ pc[r] \notin {"page", "close"}) =>
              (~chromium[r].open /\ chromium[r].closedBy = r)
        /\ chromium[r].closedBy \in {"nobody", r}

C9_Witness ==
    \E r, q \in Requests :
        /\ chromium[r].launched /\ ~chromium[r].open /\ pc[r] = "done"
        /\ scrapedData[r] = null
        /\ chromium[q].launched /\ ~chromium[q].open /\ scrapedData[q] # null

(* C10.  No call posts more than once, a request makes one call per        *)
(* extracted listing and one for the root, so at most n + 1 posts, and it  *)
(* has answered once the root call has returned.                           *)
C10_NoRetry ==
    \A r \in Requests :
        /\ \A i \in 1..Len(calls[r]) :
              /\ calls[r][i].posts <= 1
              /\ calls[r][i].hit => calls[r][i].posts = 0
        /\ Scraped(r) =>
              /\ Len(calls[r]) <= Len(Gigs(r)) + 1
              /\ SumPosts(calls[r]) <= Len(Gigs(r)) + 1
              /\ RootReturned(r) => pc[r] = "done"

C10_Witness ==
    \E r \in Requests :
        /\ Scraped(r) /\ pc[r] = "done"
        /\ Len(Gigs(r)) >= 2
        /\ SumPosts(calls[r]) = Len(Gigs(r)) + 1
        /\ \E i \in 1..Len(calls[r]) : calls[r][i].result = null

(* C11.  The callback returns the seven fields for every document.  A      *)
(* scalar whose element the document lacks is "N/A": publicName, username, *)
(* gigTitle, reviewsCount, and the title and link or image of each gig     *)
(* card and project item.  A list whose elements the document lacks is     *)
(* empty: skills, gigs (no section, no container or no card), projects.    *)
C11_SentinelDefaults ==
    domData # null =>
        LET Field(key) == Get(domData, key)
            cards == dom.servicesSection.gigContainer.gigElements
            NA == Str("N/A")
        IN  /\ [i \in 1..Len(domData.o) |-> domData.o[i].k] =
                   <<"publicName", "username", "gigTitle", "reviewsCount",
                     "skills", "gigs", "projects">>
            /\ \A key \in {"publicName", "username", "gigTitle"} :
                   ~dom[key].present => Field(key) = NA
            /\ ~dom.reviewsElement.present => Field("reviewsCount") = NA
            /\ dom.skillsList = <<>> => Field("skills") = Arr(<<>>)
            /\ (~dom.servicesSection.present
                    \/ ~dom.servicesSection.gigContainer.present
                    \/ cards = <<>>) => Field("gigs") = Arr(<<>>)
            /\ dom.projectElements = <<>> => Field("projects") = Arr(<<>>)
            /\ Len(Field("gigs").a) \in {0, Len(cards)}
            /\ \A i \in 1..Len(Field("gigs").a) :
                   /\ ~cards[i].titleEl.present => Get(Field("gigs").a[i], "title") = NA
                   /\ ~cards[i].urlEl.present => Get(Field("gigs").a[i], "link") = NA
            /\ Len(Field("projects").a) = Len(dom.projectElements)
            /\ \A i \in 1..Len(dom.projectElements) :
                   /\ ~dom.projectElements[i].titleEl.present =>
                          Get(Field("projects").a[i], "title") = NA
                   /\ ~dom.projectElements[i].urlEl.present =>
                          Get(Field("projects").a[i], "image") = NA

C11_Witness ==
    /\ domData # null
    /\ ~dom.publicName.present /\ dom.username.present
    /\ ~dom.reviewsElement.present
    /\ dom.skillsList = <<>>
    /\ dom.servicesSection.gigContainer.present
    /\ Len(dom.servicesSection.gigContainer.gigElements) = 2
    /\ ~dom.servicesSection.gigContainer.gigElements[1].titleEl.present
    /\ dom.servicesSection.gigContainer.gigElements[2].titleEl.present
    /\ Len(dom.projectElements) = 1
    /\ ~dom.projectElements[1].urlEl.present
    /\ Get(domData, "publicName") = Str("N/A")
    /\ Get(domData, "username") = Str("alice")
    /\ Get(Get(domData, "gigs").a[2], "title") = Str("Logo design")

(* C12.  A request that has started and has not been answered has a step   *)
(* to take: it is never left without a response and with nothing more to   *)
(* run.  Each step moves the request forward and the external calls        *)
(* return, so such a request ends with a response.                         *)
C12_EveryRequestAnswered ==
    \A r \in Requests :
        pc[r] # "new" => (response[r].status # 0 \/ ENABLED RequestStep(r))

(* C13.  A request that has made a storeDataOnIPFS call has closed its     *)
(* browser.  Its i-th call is the call for listing i, the call after the   *)
(* last listing is the root call, and every call but the newest has        *)
(* returned: a call begins only after the one before it has resolved, and  *)
(* the request has at most one post in flight, exactly when it awaits one. *)
C13_StrictlySequential ==
    \A r \in Requests :
        /\ (pc[r] \in {"store", "post"} \/ calls[r] # <<>>) =>
              /\ scrapedData[r] # null
              /\ chromium[r].launched /\ ~chromium[r].open
              /\ Len(calls[r]) <= Len(Gigs(r)) + 1
              /\ \A i \in 1..Len(calls[r]) :
                    /\ i < Len(calls[r]) => calls[r][i].returned
                    /\ i <= Len(Gigs(r)) =>
                          calls[r][i].hash = generateHash(Gigs(r)[i])
                    /\ i = Len(Gigs(r)) + 1 =>
                          calls[r][i].hash = generateHash(ProfileData(r))
        /\ Cardinality({i \in 1..Len(calls[r]) : ~calls[r][i].returned}) <= 1
        /\ pc[r] = "post" <=>
              (calls[r] # <<>> /\ ~calls[r][Len(calls[r])].returned)

C13_Witness ==
    \E r, q \in Requests :
        /\ pc[r] = "post" /\ Len(calls[r]) = Len(Gigs(r)) + 1 /\ Len(Gigs(r)) >= 2
        /\ \A i \in 1..Len(Gigs(r)) : calls[r][i].posts = 1
        /\ pc[q] = "post" /\ Len(calls[q]) = 2 /\ Len(Gigs(q)) >= 2

(* C14.  No step removes a hash from uploadedMetadata, and a hash enters   *)
(* it only in the step in which a post made for that hash settles with     *)
(* success.                                                                *)
C14_MapOnlyGrows ==
    [][/\ DOMAIN uploadedMetadata \subseteq DOMAIN uploadedMetadata'
       /\ \A h \in DOMAIN uploadedMetadata' \ DOMAIN uploadedMetadata :
             \E r \in Requests :
                 /\ Settled(r)
                 /\ calls[r][Len(calls[r])].hash = h
                 /\ calls[r][Len(calls[r])].posts = 1
                 /\ Truthy(calls'[r][Len(calls[r])].result)]_vars

C14_Witness ==
    /\ Cardinality(DOMAIN uploadedMetadata) >= 3
    /\ \E c \in MadeCalls :
          /\ Call(c).returned /\ Call(c).result = null
          /\ Call(c).hash \notin DOMAIN uploadedMetadata
    /\ \E r \in Requests : pc[r] = "post"

(* C15.  Once the root call of a request has begun, the object it hashes   *)
(* and posts is profileData with gigs = gigCIDs, and gigCIDs holds one     *)
(* { gigTitle, cid, ipfsUrl } entry, and nothing else, for each listing    *)
(* whose call returned a CID, in page order.  Each of those calls had      *)
(* returned by then, with the CID of that listing's content, fresh from    *)
(* the network or read from the map.  A 200 answer lists the same entries. *)
C15_RootHoldsReferences ==
    \A r \in Requests :
        (Scraped(r) /\ Len(calls[r]) = Len(Gigs(r)) + 1) =>
            /\ gigCIDs[r] = PublishedGigs(r)
            /\ RootCallOf(r).hash =
                   generateHash(Obj(<<Prop("publicName", Get(scrapedData[r], "publicName")),
                                      Prop("username", Get(scrapedData[r], "username")),
                                      Prop("gigTitle", Get(scrapedData[r], "gigTitle")),
                                      Prop("reviewsCount", Get(scrapedData[r], "reviewsCount")),
                                      Prop("skills", Get(scrapedData[r], "skills")),
                                      Prop("projects", Get(scrapedData[r], "projects")),
                                      Prop("gigs", Arr(PublishedGigs(r)))>>))
            /\ \A i \in 1..Len(Gigs(r)) :
                   /\ calls[r][i].returned
                   /\ calls[r][i].hash = generateHash(Gigs(r)[i])
                   /\ Truthy(calls[r][i].result) =>
                          /\ calls[r][i].result = Str(IpfsHash(Gigs(r)[i]))
                          /\ calls[r][i].posts = 1 \/ calls[r][i].hit
            /\ \A k \in 1..Len(gigCIDs[r]) :
                   [j \in 1..Len(gigCIDs[r][k].o) |-> gigCIDs[r][k].o[j].k] =
                       <<"gigTitle", "cid", "ipfsUrl">>
            /\ response[r].status = 200 =>
                   Get(response[r].body, "gigs") = Arr(PublishedGigs(r))

C15_Witness ==
    \E r \in Requests :
        /\ Scraped(r) /\ response[r].status = 200
        /\ Len(Gigs(r)) = 3
        /\ Len(gigCIDs[r]) = 2
        /\ calls[r][2].result = null
        /\ calls[r][1].hit /\ calls[r][3].posts = 1

(* C16.  A lookup is answered 404 when the contract holds no DID for the   *)
(* wallet and 200 with the record stored for the DID when it holds one,    *)
(* unless a call to the contract failed; it is answered 500 only after a   *)
(* call it made to the contract failed.                                    *)
C16_LookupAnswers ==
    [][\A g \in Lookups :
          (profileReq[g].pc = "new" /\ profileReq'[g].pc = "done") =>
              LET did == sbtContract.userToDID[profileReq[g].wallet]
                  res == profileReq'[g].response
                  failed == \E i \in 1..Len(profileReq'[g].registryCalls) :
                               profileReq'[g].registryCalls[i]
                                   \in {"userToDID failed", "didRecords failed"}
              IN  /\ res.status = 500 <=> failed
                  /\ (~failed /\ did = "") => res.status = 404
                  /\ (~failed /\ did # "") =>
                         /\ res.status = 200
                         /\ Get(res.body, "profile") = sbtContract.didRecords[did]]_vars

(* C17.  No step changes the CID that uploadedMetadata holds for a hash,   *)
(* the step in which a post made before the entry was written settles      *)
(* included, and every call that has returned a CID returned the CID the   *)
(* map holds for its hash.                                                 *)
C17_AssociationStable ==
    [][/\ \A h \in DOMAIN uploadedMetadata :
             h \in DOMAIN uploadedMetadata' /\ uploadedMetadata'[h] = uploadedMetadata[h]
       /\ \A r \in Requests : \A i \in 1..Len(calls'[r]) :
             Truthy(calls'[r][i].result) =>
                 /\ calls'[r][i].hash \in DOMAIN uploadedMetadata'
                 /\ calls'[r][i].result = Str(uploadedMetadata'[calls'[r][i].hash])]_vars

C17_Witness ==
    \E c, d \in MadeCalls :
        /\ c # d /\ Call(c).hash = Call(d).hash
        /\ Call(c).posts = 1 /\ Call(d).posts = 1
        /\ Truthy(Call(c).result) /\ Truthy(Call(d).result)
        /\ \E e \in MadeCalls : Call(e).hash = Call(c).hash /\ Call(e).hit
        /\ uploadedMetadata[Call(c).hash] = Call(d).result.s

(* C18.  A call whose post fails leaves a hash that was not in             *)
(* uploadedMetadata out of it.  A call that begins after a call on the     *)
(* same hash has failed, while the map holds no entry for the hash, makes  *)
(* a post of its own; when that post succeeds the call returns the CID of  *)
(* the content and the map holds it.                                       *)
C18_FailureNotCached ==
    [][\A r \in Requests :
          LET n == Len(calls[r]) IN
          /\ (Settled(r) /\ calls'[r][n].result = null
                  /\ calls[r][n].hash \notin DOMAIN uploadedMetadata) =>
                 calls[r][n].hash \notin DOMAIN uploadedMetadata'
          /\ (Began(r) /\ NewestCall(r).hash \notin DOMAIN uploadedMetadata
                  /\ \E c \in Returned(NewestCall(r).hash) : Call(c).result = null) =>
                 /\ NewestCall(r).posts = 1 /\ ~NewestCall(r).hit
                 /\ ~NewestCall(r).returned /\ pc'[r] = "post"
          /\ (Settled(r) /\ calls'[r][n].result # null) =>
                 /\ calls'[r][n].result = Str(IpfsHash(CurrentData(r)))
                 /\ calls[r][n].hash \in DOMAIN uploadedMetadata'
                 /\ uploadedMetadata'[calls[r][n].hash] = IpfsHash(CurrentData(r))]_vars

C18_Witness ==
    \E r \in Requests :
        /\ Len(calls[r]) >= 2
        /\ calls[r][1].hash = calls[r][2].hash
        /\ calls[r][1].posts = 1 /\ calls[r][1].returned /\ calls[r][1].result = null
        /\ calls[r][2].posts = 1 /\ Truthy(calls[r][2].result)
        /\ uploadedMetadata[calls[r][2].hash] = calls[r][2].result.s
        /\ Pinned(calls[r][2].hash) = {<<r, 2>>}

(* C19.  A request that scrapes the same data as a request answered 200    *)
(* before it, with every listing published, makes no post: each of its     *)
(* calls is a hit, none of its steps changes uploadedMetadata, and its     *)
(* answer is the answer of the earlier request, profileCID and gigs alike. *)
C19_RequestIdempotent ==
    [][\A q, r \in Requests :
          LaterSame(q, r) =>
              /\ SumPosts(calls'[q]) = 0
              /\ \A i \in 1..Len(calls'[q]) : calls'[q][i].hit
              /\ pc'[q] # "post"
              /\ (pc'[q] # pc[q] \/ calls'[q] # calls[q]) =>
                     uploadedMetadata' = uploadedMetadata
              /\ pc'[q] = "done" =>
                     /\ response'[q].status = 200
                     /\ response'[q] = response[r]]_vars

C19_Witness ==
    \E q, r \in Requests :
        /\ LaterSame(q, r)
        /\ Len(Gigs(r)) = 3
        /\ SumPosts(calls[r]) = 4
        /\ pc[q] = "done"
        /\ Len(calls[q]) = 4 /\ SumPosts(calls[q]) = 0
        /\ Get(response[q].body, "profileCID") = Get(response[r].body, "profileCID")
        /\ Get(response[q].body, "gigs") = Get(response[r].body, "gigs")
        /\ Len(Get(response[q].body, "gigs").a) = 3

====
